---------------------------- MODULE Spec2Model ----------------------------
(***************************************************************************)
(* A model of m4db-analysis: the unique-id <-> shard-path codec of         *)
(* lib/m4db_analysis/utilities.py and the retrieve_models / model_stats    *)
(* commands of lib/m4db_analysis/entry_point.py.                           *)
(*                                                                         *)
(* A Python str is a sequence of one-character strings, a Python list of   *)
(* str a sequence of such sequences.  A call's outcome is a record         *)
(* [exc, val]: exc = "" when the call returned val, otherwise the name of  *)
(* the exception it raised (and val = <<>>).                               *)
(***************************************************************************)
EXTENDS Integers, Sequences, FiniteSets, TLC

VARIABLES
    \* ---- codec harness (utilities.py) ----
    chain,      \* which round trip is made: "uid", "pairs" or "none"
    cpc,        \* position in the chain of codec calls
    uid_in,     \* the str handed to uid_to_dir
    pairs_in,   \* the list handed to hex_pairs_to_uid
    r_dir,      \* outcome of uid_to_dir
    r_uid,      \* outcome of dir_to_uid / hex_pairs_to_uid
    \* ---- command line application (entry_point.py) ----
    command,    \* the command typer dispatched to, or "none"
    pc,         \* position inside the command
    catalog,    \* the tuples the catalog returns for the fixed query
    conn,       \* the psycopg2 connection
    rows,       \* rows, as returned by get_models_by_user_project
    idx,        \* number of rows the loop has taken
    exc,        \* the exception propagating out of the command, "" if none
    src_files,  \* files under source_dir: path -> content
    dirs,       \* directories of the destination tree
    files,      \* files of the destination tree: path -> content
    df_dict,    \* model_stats' column name -> list of values
    csv,        \* rows written to output_csv
    run,        \* number of the current invocation
    first_run   \* destination tree and outcome when the first invocation ended

codec_vars == <<chain, cpc, uid_in, pairs_in, r_dir, r_uid>>
cli_vars == <<command, pc, catalog, conn, rows, idx, exc, src_files, dirs,
              files, df_dict, csv, run, first_run>>
vars == <<codec_vars, cli_vars>>

----------------------------------------------------------------------------
(* Python values and outcomes *)

Return(v) == [exc |-> "", val |-> v]
Raise(e) == [exc |-> e, val |-> <<>>]
NotCalled == [exc |-> "<not called>", val |-> <<>>]

Min(a, b) == IF a <= b THEN a ELSE b

\* iterating a str yields its characters, each a str of length one
iter_str(s) == [k \in 1..Len(s) |-> <<s[k]>>]

----------------------------------------------------------------------------
(* utilities.py *)

\* the character class [0-9A-Fa-f]
HEX_RE_STR ==
    {"0", "1", "2", "3", "4", "5", "6", "7", "8", "9",
     "A", "B", "C", "D", "E", "F", "a", "b", "c", "d", "e", "f"}

\* a compiled pattern is a sequence of tokens: "h" is one character of
\* HEX_RE_STR, any other token is that literal character
Rep(tok, n) == [k \in 1..n |-> tok]

HEX_REGEX == <<"h">>

UID_REGEX ==
    Rep("h", 8) \o <<"-">> \o Rep("h", 4) \o <<"-">> \o Rep("h", 4) \o <<"-">>
        \o Rep("h", 4) \o <<"-">> \o Rep("h", 12)

TokMatch(tok, c) == IF tok = "h" THEN c \in HEX_RE_STR ELSE c = tok

\* Pattern.match: the pattern must match at the start of s; what follows
\* the match is not looked at
re_match(regex, s) ==
    /\ Len(s) >= Len(regex)
    /\ \A k \in 1..Len(regex) : TokMatch(regex[k], s[k])

\* str.replace(old, "") for a one-character old
str_remove(s, old) == SelectSeq(s, LAMBDA c : c # old)

\* [s[i:i + 2] for i in range(0, len(s), 2)]
slice_pairs(s) ==
    [k \in 1..((Len(s) + 1) \div 2) |-> SubSeq(s, 2 * k - 1, Min(2 * k, Len(s)))]

starts_with_sep(s) == Len(s) > 0 /\ s[1] = "/"
ends_with_sep(s) == Len(s) > 0 /\ s[Len(s)] = "/"

\* posixpath.join(a, *p), parts = <<a>> \o p, Len(parts) >= 1
RECURSIVE os_path_join(_)
os_path_join(parts) ==
    IF Len(parts) = 1 THEN parts[1]
    ELSE LET path == os_path_join(SubSeq(parts, 1, Len(parts) - 1))
             b == parts[Len(parts)]
         IN  IF starts_with_sep(b) THEN b
             ELSE IF path = <<>> \/ ends_with_sep(path) THEN path \o b
             ELSE path \o <<"/">> \o b

\* str.rfind("/") + 1
last_sep(p) ==
    LET at == {k \in 1..Len(p) : p[k] = "/"}
    IN  IF at = {} THEN 0 ELSE CHOOSE k \in at : \A m \in at : m <= k

RECURSIVE rstrip_sep(_)
rstrip_sep(s) ==
    IF ends_with_sep(s) THEN rstrip_sep(SubSeq(s, 1, Len(s) - 1)) ELSE s

\* posixpath.split(p) = <<head, tail>>
os_path_split(p) ==
    LET i == last_sep(p)
        head == SubSeq(p, 1, i)
        tail == SubSeq(p, i + 1, Len(p))
    IN  IF head # <<>> /\ \E k \in 1..Len(head) : head[k] # "/"
        THEN <<rstrip_sep(head), tail>>
        ELSE <<head, tail>>

RECURSIVE split_all_loop(_, _)
split_all_loop(path, all_parts) ==
    LET parts == os_path_split(path)
    IN  IF parts[1] = path THEN <<parts[1]>> \o all_parts
        ELSE IF parts[2] = path THEN <<parts[2]>> \o all_parts
        ELSE split_all_loop(parts[1], <<parts[2]>> \o all_parts)

split_all(path) == split_all_loop(path, <<>>)

\* the hyphens are not removed before the split
uid_to_dir_keeps_hyphens(unique_id) ==
    IF ~re_match(UID_REGEX, unique_id) THEN Raise("ValueError")
    ELSE Return(os_path_join(slice_pairs(unique_id)))

uid_to_dir(unique_id) ==
    IF ~re_match(UID_REGEX, unique_id) THEN Raise("ValueError")
    ELSE LET path_str == str_remove(unique_id, "-")
             path_spt == slice_pairs(path_str)
         IN  Return(os_path_join(path_spt))

\* list(*pairs): list() of no argument is empty, list(x) holds what
\* iterating x yields, list of two or more arguments is a TypeError.
\* pairs[k] is what iterating the k-th positional argument yields.
list_of_args(pairs) ==
    IF Len(pairs) = 0 THEN Return(<<>>)
    ELSE IF Len(pairs) = 1 THEN Return(pairs[1])
    ELSE Raise("TypeError")

RECURSIVE concat_all(_)
concat_all(ss) == IF ss = <<>> THEN <<>> ELSE Head(ss) \o concat_all(Tail(ss))

\* '{}{}{}{}-{}{}-{}{}-{}{}-{}{}{}{}{}{}'.format(*lst), Len(lst) = 16
format_uid(lst) ==
    concat_all(SubSeq(lst, 1, 4)) \o <<"-">> \o concat_all(SubSeq(lst, 5, 6))
        \o <<"-">> \o concat_all(SubSeq(lst, 7, 8)) \o <<"-">>
        \o concat_all(SubSeq(lst, 9, 10)) \o <<"-">> \o concat_all(SubSeq(lst, 11, 16))

hex_pairs_to_uid(pairs) ==
    LET made == list_of_args(pairs)
        lst_pairs == made.val
    IN  IF made.exc # "" THEN made
        ELSE IF ~(Len(lst_pairs) = 16) THEN Raise("ValueError")
        ELSE IF \E k \in 1..16 : ~re_match(HEX_REGEX, lst_pairs[k])
             THEN Raise("ValueError")
        ELSE Return(format_uid(lst_pairs))

\* hex_pairs_to_uid(*path_spt): every path component is one positional
\* argument
dir_to_uid(path_dir) ==
    LET path_spt == split_all(path_dir)
    IN  hex_pairs_to_uid([k \in 1..Len(path_spt) |-> iter_str(path_spt[k])])

----------------------------------------------------------------------------
(* entry_point.py: the catalog *)

\* psycopg2.connect(...): a connection, no transaction begun
NoConn == [state |-> "none", txn |-> "none", acquired |-> 0]

\* {"unique_id": row[0], ...}: positions are Python's plus one
row_to_dict(row) ==
    [
     unique_id |-> row[1],
     db_user |-> row[2],
     project_name |-> row[3],
     material |-> row[4],
     temperature |-> row[5],
     geometry |-> row[6],
     size |-> row[7],
     mx_tot |-> row[8],
     my_tot |-> row[9],
     mz_tot |-> row[10],
     vx_tot |-> row[11],
     vy_tot |-> row[12],
     vz_tot |-> row[13],
     h_tot |-> row[14],
     adm_tot |-> row[15],
     e_typical |-> row[16],
     e_anis |-> row[17],
     e_ext |-> row[18],
     e_demag |-> row[19],
     e_exch1 |-> row[20],
     e_exch2 |-> row[21],
     e_exch3 |-> row[22],
     e_exch4 |-> row[23],
     e_tot |-> row[24],
     volume |-> row[25]]

\* row[name]
get_item(row, name) ==
    CASE
         name = "unique_id" -> row.unique_id
      [] name = "db_user" -> row.db_user
      [] name = "project_name" -> row.project_name
      [] name = "material" -> row.material
      [] name = "temperature" -> row.temperature
      [] name = "geometry" -> row.geometry
      [] name = "size" -> row.size
      [] name = "mx_tot" -> row.mx_tot
      [] name = "my_tot" -> row.my_tot
      [] name = "mz_tot" -> row.mz_tot
      [] name = "vx_tot" -> row.vx_tot
      [] name = "vy_tot" -> row.vy_tot
      [] name = "vz_tot" -> row.vz_tot
      [] name = "h_tot" -> row.h_tot
      [] name = "adm_tot" -> row.adm_tot
      [] name = "e_typical" -> row.e_typical
      [] name = "e_anis" -> row.e_anis
      [] name = "e_ext" -> row.e_ext
      [] name = "e_demag" -> row.e_demag
      [] name = "e_exch1" -> row.e_exch1
      [] name = "e_exch2" -> row.e_exch2
      [] name = "e_exch3" -> row.e_exch3
      [] name = "e_exch4" -> row.e_exch4
      [] name = "e_tot" -> row.e_tot
      [] name = "volume" -> row.volume

\* get_models_by_user_project once cursor.execute has returned: fetchall,
\* then one dict per tuple
rows_of(fetched) == [k \in 1..Len(fetched) |-> row_to_dict(fetched[k])]

----------------------------------------------------------------------------
(* entry_point.py: the file system calls *)

NoFiles == [p \in {} |-> ""]

\* every proper ancestor directory a relative or absolute path names
ancestors(path) == {SubSeq(path, 1, k - 1) : k \in {m \in 2..Len(path) : path[m] = "/"}}

os_path_dirname(path) == os_path_split(path)[1]
os_path_basename(path) == os_path_split(path)[2]

\* os.makedirs(name, exist_ok=True) on the tree <<ds, fs>>: the outcome's
\* val is the new set of directories
\* os.makedirs(name): an existing directory is an error
os_makedirs_no_exist_ok(ds, fs, name) ==
    IF name \in DOMAIN fs THEN Raise("FileExistsError")
    ELSE IF \E a \in ancestors(name) : a \in DOMAIN fs THEN Raise("NotADirectoryError")
    ELSE IF name \in ds THEN Raise("FileExistsError")
    ELSE Return(ds \cup ancestors(name) \cup {name})

\* no directory is made
os_makedirs_nothing(ds, fs, name) == Return(ds)

os_makedirs(ds, fs, name) ==
    IF name \in DOMAIN fs THEN Raise("FileExistsError")
    ELSE IF \E a \in ancestors(name) : a \in DOMAIN fs THEN Raise("NotADirectoryError")
    ELSE Return(ds \cup ancestors(name) \cup {name})

\* shutil.copy(src, dst) from the source tree sfs into the tree <<ds, fs>>:
\* the outcome's val is the new path -> content map
shutil_copy(sfs, ds, fs, src, dst) ==
    LET to == IF dst \in ds THEN os_path_join(<<dst, os_path_basename(src)>>) ELSE dst
    IN  IF src \notin DOMAIN sfs THEN Raise("FileNotFoundError")
        ELSE IF to \in ds THEN Raise("IsADirectoryError")
        ELSE IF os_path_dirname(to) # <<>> /\ os_path_dirname(to) \notin ds
             THEN Raise("FileNotFoundError")
        ELSE Return((to :> sfs[src]) @@ fs)

\* str(n) of a natural number
RECURSIVE python_str(_)
python_str(n) ==
    LET digit == <<"0", "1", "2", "3", "4", "5", "6", "7", "8", "9">>[(n % 10) + 1]
    IN  IF n < 10 THEN <<digit>> ELSE python_str(n \div 10) \o <<digit>>

----------------------------------------------------------------------------
(* entry_point.py: retrieve_models and model_stats *)

\* the command's arguments
destination_dir == <<"o", "u", "t">>
source_dir == <<"/", "m">>

\* the keys of df_dict, in the order the dict literal lists them
DF_COLUMNS ==
    <<"unique_id", "db_user", "project_name", "material", "temperature",
    "geometry", "size", "mx_tot", "my_tot", "mz_tot", "vx_tot", "vy_tot",
    "vz_tot", "h_tot", "adm_tot", "e_typical", "e_anis", "e_ext",
    "e_demag", "e_exch1", "e_exch2", "e_exch3", "e_exch4", "e_tot",
    "volume">>

\* df_dict[column].append(row[key]), one pair per statement of the loop body
APPENDS ==
    <<
      <<"unique_id", "unique_id">>,
      <<"db_user", "db_user">>,
      <<"project_name", "project_name">>,
      <<"material", "material">>,
      <<"temperature", "temperature">>,
      <<"geometry", "geometry">>,
      <<"size", "size">>,
      <<"mx_tot", "mx_tot">>,
      <<"my_tot", "my_tot">>,
      <<"mz_tot", "mz_tot">>,
      <<"vx_tot", "vx_tot">>,
      <<"vy_tot", "vy_tot">>,
      <<"vz_tot", "vz_tot">>,
      <<"h_tot", "h_tot">>,
      <<"adm_tot", "adm_tot">>,
      <<"e_typical", "e_typical">>,
      <<"e_anis", "e_anis">>,
      <<"e_ext", "e_ext">>,
      <<"e_demag", "e_demag">>,
      <<"e_exch1", "e_exch1">>,
      <<"e_exch2", "e_exch2">>,
      <<"e_exch3", "e_exch3">>,
      <<"e_exch4", "e_exch4">>,
      <<"e_tot", "e_tot">>,
      <<"volume", "volume">>>>

\* the material is left out of the path
output_dir_without_material(row) ==
    os_path_join(<<destination_dir, row.db_user, row.project_name,
                   row.geometry, python_str(row.size), python_str(row.temperature)>>)

output_dir(row) ==
    os_path_join(<<destination_dir, row.db_user, row.project_name, row.material,
                   row.geometry, python_str(row.size), python_str(row.temperature)>>)

\* f"{row['unique_id']}.zip" under output_dir
output_zip(row) ==
    os_path_join(<<output_dir(row), row.unique_id \o <<".", "z", "i", "p">> >>)

\* uid_to_dir's outcome; when it returned, val is the archive's path
source_zip(row) ==
    LET shard == uid_to_dir(row.unique_id)
    IN  IF shard.exc # "" THEN shard
        ELSE Return(os_path_join(<<source_dir, shard.val,
                                   <<"d", "a", "t", "a", ".", "z", "i", "p">> >>))

\* one pass of the loop body of model_stats over d
RECURSIVE append_all(_, _, _)
append_all(d, row, todo) ==
    IF todo = <<>> THEN d
    ELSE LET col == Head(todo)[1]
             key == Head(todo)[2]
         IN  append_all([d EXCEPT ![col] = Append(@, get_item(row, key))], row, Tail(todo))

\* the last append is missing
append_row_skipping_volume(d, row) == append_all(d, row, SubSeq(APPENDS, 1, 24))

append_row(d, row) == append_all(d, row, APPENDS)

\* pd.DataFrame.from_dict(d).to_csv(path): ValueError when the columns differ
\* in length; else a header line (an unlabelled index column, then the keys
\* in order) and one line per row, led by its index from 0.  A line is the
\* sequence of its cells.
to_csv(d) ==
    LET n == Len(d[DF_COLUMNS[1]])
    IN  IF \E c \in DOMAIN d : Len(d[c]) # n THEN Raise("ValueError")
        ELSE Return(<< <<"">> \o DF_COLUMNS >>
                    \o [k \in 1..n |-> <<k - 1>> \o [j \in 1..Len(DF_COLUMNS) |-> d[DF_COLUMNS[j]][k]]])

Running(cmd, at) == command = cmd /\ pc = at

\* with psycopg2.connect("dbname=m4db_finetemp host=totaig") as conn:
\* connect returns an open connection or raises, before the block is entered
Connect ==
    /\ pc = "connect"
    /\ \/ /\ conn' = [state |-> "open", txn |-> "none", acquired |-> conn.acquired + 1]
          /\ pc' = "query"
          /\ exc' = exc
       \/ /\ conn' = conn
          /\ exc' = "OperationalError"
          /\ pc' = "exited"
    /\ UNCHANGED <<command, catalog, rows, idx, src_files, dirs, files, df_dict, csv,
                   run, first_run, codec_vars>>

\* get_models_by_user_project(db_user, project_name, conn): execute begins a
\* transaction and returns the catalog's tuples, or raises
Query ==
    /\ pc = "query"
    /\ conn' = [conn EXCEPT !.txn = "begun"]
    /\ \/ /\ rows' = rows_of(catalog)
          /\ pc' = IF command = "model_stats" THEN "append" ELSE "track"
          /\ df_dict' = IF command = "model_stats"
                        THEN [c \in {DF_COLUMNS[j] : j \in 1..Len(DF_COLUMNS)} |-> <<>>]
                        ELSE df_dict
          /\ exc' = exc
       \/ /\ exc' = "DatabaseError"
          /\ pc' = "leave_with"
          /\ UNCHANGED <<rows, df_dict>>
    /\ UNCHANGED <<command, catalog, idx, src_files, dirs, files, csv, run, first_run,
                   codec_vars>>

\* for row in progress.track(rows): the next row's three paths, or the end
\* of the loop
TrackRow ==
    /\ Running("retrieve_models", "track")
    /\ IF idx = Len(rows) THEN pc' = "leave_with" /\ exc' = exc
       ELSE LET from == source_zip(rows[idx + 1])
            IN  IF from.exc # "" THEN pc' = "leave_with" /\ exc' = from.exc
                ELSE pc' = "makedirs" /\ exc' = exc
    /\ UNCHANGED <<command, catalog, conn, rows, idx, src_files, dirs, files, df_dict,
                   csv, run, first_run, codec_vars>>

\* os.makedirs(output_dir, exist_ok=True)
MakeDirs ==
    /\ Running("retrieve_models", "makedirs")
    /\ LET made == os_makedirs(dirs, files, output_dir(rows[idx + 1]))
       IN  IF made.exc # "" THEN pc' = "leave_with" /\ exc' = made.exc /\ dirs' = dirs
           ELSE pc' = "copy" /\ exc' = exc /\ dirs' = made.val
    /\ UNCHANGED <<command, catalog, conn, rows, idx, src_files, files, df_dict, csv,
                   run, first_run, codec_vars>>

\* a failed copy is skipped and the loop goes on
CopyArchive_skips_missing ==
    /\ Running("retrieve_models", "copy")
    /\ LET row == rows[idx + 1]
           copied == shutil_copy(src_files, dirs, files, source_zip(row).val,
                                 output_zip(row))
       IN  /\ files' = IF copied.exc # "" THEN files ELSE copied.val
           /\ pc' = "track" /\ exc' = exc /\ idx' = idx + 1
    /\ UNCHANGED <<command, catalog, conn, rows, src_files, dirs, df_dict, csv, run,
                   first_run, codec_vars>>

\* shutil.copy(source_zip, output_zip), then the next row
CopyArchive ==
    /\ Running("retrieve_models", "copy")
    /\ LET row == rows[idx + 1]
           copied == shutil_copy(src_files, dirs, files, source_zip(row).val,
                                 output_zip(row))
       IN  IF copied.exc # ""
           THEN pc' = "leave_with" /\ exc' = copied.exc /\ files' = files /\ idx' = idx
           ELSE pc' = "track" /\ exc' = exc /\ files' = copied.val /\ idx' = idx + 1
    /\ UNCHANGED <<command, catalog, conn, rows, src_files, dirs, df_dict, csv, run,
                   first_run, codec_vars>>

\* for row in rows: the 25 appends, or the end of the loop
AppendRow ==
    /\ Running("model_stats", "append")
    /\ IF idx = Len(rows) THEN pc' = "to_csv" /\ UNCHANGED <<df_dict, idx>>
       ELSE /\ df_dict' = append_row(df_dict, rows[idx + 1])
            /\ idx' = idx + 1
            /\ pc' = pc
    /\ UNCHANGED <<command, catalog, conn, rows, exc, src_files, dirs, files, csv, run,
                   first_run, codec_vars>>

\* df = pd.DataFrame.from_dict(df_dict); df.to_csv(output_csv): the file is
\* written, or the write raises
WriteCsv ==
    /\ Running("model_stats", "to_csv")
    /\ pc' = "leave_with"
    /\ LET out == to_csv(df_dict)
       IN  \/ /\ out.exc = ""
              /\ csv' = out.val
              /\ exc' = exc
           \/ /\ exc' = IF out.exc # "" THEN out.exc ELSE "OSError"
              /\ csv' = csv
    /\ UNCHANGED <<command, catalog, conn, rows, idx, src_files, dirs, files, df_dict,
                   run, first_run, codec_vars>>

\* the end of the with block, connection.__exit__: psycopg2 commits when the
\* block ended normally and rolls back when an exception leaves it; it does
\* not close the connection
LeaveWith ==
    /\ pc = "leave_with"
    /\ conn' = [conn EXCEPT !.txn = IF exc = "" THEN "committed" ELSE "rolledback"]
    /\ pc' = "exited"
    /\ UNCHANGED <<command, catalog, rows, idx, exc, src_files, dirs, files, df_dict,
                   csv, run, first_run, codec_vars>>

\* most invocations of the command in one behaviour
MaxRuns == 2
\* most records in the result set
MaxRecords == 3

NoRun == [ended |-> FALSE, exc |-> "", dirs |-> {}, files |-> NoFiles]

\* the same command is run again with the same arguments, by a new process,
\* over the same catalog and source tree
RunAgain ==
    /\ pc = "exited"
    /\ run < MaxRuns
    /\ run' = run + 1
    /\ first_run' = IF run = 1
                    THEN [ended |-> TRUE, exc |-> exc, dirs |-> dirs, files |-> files]
                    ELSE first_run
    /\ pc' = "connect"
    /\ conn' = NoConn
    /\ rows' = <<>>
    /\ idx' = 0
    /\ exc' = ""
    /\ df_dict' = <<>>
    /\ UNCHANGED <<command, catalog, src_files, dirs, files, csv, codec_vars>>

CliNext ==
    \/ Connect
    \/ Query
    \/ TrackRow
    \/ MakeDirs
    \/ CopyArchive
    \/ AppendRow
    \/ WriteCsv
    \/ LeaveWith
    \/ RunAgain

----------------------------------------------------------------------------
(* The codec harness: one round trip per behaviour, on an input drawn from *)
(* canonical unique ids / shard paths and their near misses.               *)

\* "0f86b938-15a3-4f1e-99b1-8f2b65b37a03", the example of dir_to_uid's docstring
UidA ==
    <<"0", "f", "8", "6", "b", "9", "3", "8", "-", "1", "5", "a", "3",
    "-", "4", "f", "1", "e", "-", "9", "9", "b", "1", "-", "8", "f", "2",
    "b", "6", "5", "b", "3", "7", "a", "0", "3">>

\* "ABCDEF01-2345-6789-abcd-Ef0123456789"
UidB ==
    <<"A", "B", "C", "D", "E", "F", "0", "1", "-", "2", "3", "4", "5",
    "-", "6", "7", "8", "9", "-", "a", "b", "c", "d", "-", "E", "f", "0",
    "1", "2", "3", "4", "5", "6", "7", "8", "9">>

BaseUids == {UidA, UidB}

PairsA ==
    <<<<"0", "f">>, <<"8", "6">>, <<"b", "9">>, <<"3", "8">>, <<"1",
    "5">>, <<"a", "3">>, <<"4", "f">>, <<"1", "e">>, <<"9", "9">>, <<"b",
    "1">>, <<"8", "f">>, <<"2", "b">>, <<"6", "5">>, <<"b", "3">>, <<"7",
    "a">>, <<"0", "3">>>>

PairsB ==
    <<<<"A", "B">>, <<"C", "D">>, <<"E", "F">>, <<"0", "1">>, <<"2",
    "3">>, <<"4", "5">>, <<"6", "7">>, <<"8", "9">>, <<"a", "b">>, <<"c",
    "d">>, <<"E", "f">>, <<"0", "1">>, <<"2", "3">>, <<"4", "5">>, <<"6",
    "7">>, <<"8", "9">>>>

BasePairs == {PairsA, PairsB}

\* longest run of characters appended to a unique id
MaxTrail == 2
\* most segments appended to a 16-segment list
MaxExtraSegs == 1

MutChars == {"0", "F", "g", "-", "/"}
TrailChars == {"0", "x", "-", "/"}

Suffixes == UNION {[1..n -> TrailChars] : n \in 1..MaxTrail}

UidInputs ==
    BaseUids
    \cup {[u EXCEPT ![k] = c] : u \in BaseUids, k \in 1..36, c \in MutChars}
    \cup {u \o suf : u \in BaseUids, suf \in Suffixes}
    \cup {SubSeq(u, 1, n) : u \in BaseUids, n \in 0..35}

TestSegs ==
    {<<"z", "z">>, <<"a">>, <<"0", "z">>, <<"a", "b", "c">>, <<>>, <<"g",
    "0">>, <<"7", "F">>, <<"e", "4">>, <<"z">>, <<"-", "1">>}

PairInputs ==
    BasePairs
    \cup {[p EXCEPT ![k] = seg] : p \in BasePairs, k \in 1..16, seg \in TestSegs}
    \cup {SubSeq(p, 1, n) : p \in BasePairs, n \in 0..15}
    \cup {p \o Rep(seg, m) : p \in BasePairs, seg \in {<<"0", "f">>, <<"z", "z">>},
                              m \in 1..MaxExtraSegs}

CodecIdle ==
    /\ chain = "none" /\ cpc = "idle" /\ uid_in = <<>> /\ pairs_in = <<>>
    /\ r_dir = NotCalled /\ r_uid = NotCalled

CodecInit ==
    /\ cpc = "start"
    /\ r_dir = NotCalled
    /\ r_uid = NotCalled
    /\ \/ chain = "uid" /\ uid_in \in UidInputs /\ pairs_in = <<>>
       \/ chain = "pairs" /\ pairs_in \in PairInputs /\ uid_in = <<>>

After(r, next) == IF r.exc = "" THEN next ELSE "raised"

\* uid_to_dir(uid_in)
CallUidToDir ==
    /\ chain = "uid" /\ cpc = "start"
    /\ r_dir' = uid_to_dir(uid_in)
    /\ cpc' = After(r_dir', "encoded")
    /\ UNCHANGED <<chain, uid_in, pairs_in, r_uid, cli_vars>>

\* dir_to_uid(uid_to_dir(uid_in))
CallDirToUid ==
    /\ chain = "uid" /\ cpc = "encoded"
    /\ r_uid' = dir_to_uid(r_dir.val)
    /\ cpc' = After(r_uid', "done")
    /\ UNCHANGED <<chain, uid_in, pairs_in, r_dir, cli_vars>>

\* hex_pairs_to_uid(pairs_in): the list is the one positional argument
CallHexPairsToUid ==
    /\ chain = "pairs" /\ cpc = "start"
    /\ r_uid' = hex_pairs_to_uid(<<pairs_in>>)
    /\ cpc' = After(r_uid', "decoded")
    /\ UNCHANGED <<chain, uid_in, pairs_in, r_dir, cli_vars>>

\* uid_to_dir(hex_pairs_to_uid(pairs_in))
CallUidToDirOfResult ==
    /\ chain = "pairs" /\ cpc = "decoded"
    /\ r_dir' = uid_to_dir(r_uid.val)
    /\ cpc' = After(r_dir', "done")
    /\ UNCHANGED <<chain, uid_in, pairs_in, r_uid, cli_vars>>

CodecNext ==
    \/ CallUidToDir
    \/ CallDirToUid
    \/ CallHexPairsToUid
    \/ CallUidToDirOfResult

----------------------------------------------------------------------------
(* What the specification calls canonical and valid, stated on its own *)

HexDigits ==
    {"0", "1", "2", "3", "4", "5", "6", "7", "8", "9",
     "a", "b", "c", "d", "e", "f", "A", "B", "C", "D", "E", "F"}

HyphenAt == {9, 14, 19, 24}

\* 8-4-4-4-12 hyphenated hex digits and nothing else
IsCanonicalUid(s) ==
    /\ Len(s) = 36
    /\ \A k \in 1..36 : IF k \in HyphenAt THEN s[k] = "-" ELSE s[k] \in HexDigits

IsHexPair(seg) == Len(seg) = 2 /\ seg[1] \in HexDigits /\ seg[2] \in HexDigits

\* exactly 16 segments, each two hex characters
IsShardSegments(s) == Len(s) = 16 /\ \A k \in 1..16 : IsHexPair(s[k])

\* the segments as nested directory names: s[1]/s[2]/.../s[n]
RECURSIVE Nested(_)
Nested(s) ==
    IF Len(s) = 1 THEN s[1]
    ELSE Nested(SubSeq(s, 1, Len(s) - 1)) \o <<"/">> \o s[Len(s)]

\* s with a hyphen inserted after its 8th, 12th, 16th and 20th character
Hyphenated(s) ==
    SubSeq(s, 1, 8) \o <<"-">> \o SubSeq(s, 9, 12) \o <<"-">> \o SubSeq(s, 13, 16)
        \o <<"-">> \o SubSeq(s, 17, 20) \o <<"-">> \o SubSeq(s, 21, Len(s))

UidChainEnded == chain = "uid" /\ cpc \in {"done", "raised"}

\* C1: for every canonical unique id u, dir_to_uid(uid_to_dir(u)) returns,
\* and returns u itself, character for character.
C1_RoundTripUid ==
    (UidChainEnded /\ IsCanonicalUid(uid_in))
        => (cpc = "done" /\ r_uid = Return(uid_in))

\* C2: for every list s of 16 two-hex-character segments, hex_pairs_to_uid(s)
\* returns a canonical unique id, and uid_to_dir of that id returns the
\* segments of s, in order, as nested directory names.
C2_RoundTripPairs ==
    (chain = "pairs" /\ cpc # "start" /\ IsShardSegments(pairs_in))
        => /\ r_uid.exc = ""
           /\ IsCanonicalUid(r_uid.val)
           /\ cpc = "done" => r_dir = Return(Nested(pairs_in))
           /\ cpc # "raised"

C2_Witness ==
    /\ chain = "pairs" /\ cpc = "done"
    /\ IsShardSegments(pairs_in)
    /\ pairs_in[16] = <<"7", "F">>
    /\ r_dir = Return(Nested(pairs_in))

\* C3: uid_to_dir returns a path only for a str that is canonical in full;
\* for every other str it raises ValueError.
C3_RejectsNonCanonical ==
    (chain = "uid" /\ cpc # "start")
        => /\ r_dir.exc = "" => IsCanonicalUid(uid_in)
           /\ ~IsCanonicalUid(uid_in) => r_dir = Raise("ValueError")

\* C4: hex_pairs_to_uid(s) returns iff s has exactly 16 segments, each two
\* hex characters, and then returns the 32 characters with hyphens after the
\* 8th, 12th, 16th and 20th; otherwise it raises.
C4_AcceptsExactlyShardSegments ==
    (chain = "pairs" /\ cpc # "start")
        => /\ r_uid.exc = "" <=> IsShardSegments(pairs_in)
           /\ r_uid.exc = "" => r_uid.val = Hyphenated(concat_all(pairs_in))

----------------------------------------------------------------------------
(* The environment of the commands: what the catalog returns and which     *)
(* archives the source tree holds.                                         *)

\* "0f86b938-15a3-4f1e-99b1", too short for a unique id
UidShort == SubSeq(UidA, 1, 23)

\* the 18 numeric columns of tuple number n: mx_tot .. volume
Numbers(n) == [j \in 1..18 |-> 100 * n + j]

\* the 25-tuple the query selects: model.unique_id, db_user.user_name,
\* project.name, material.name, material.temperature, geometry.name,
\* geometry.size, then the numeric columns
CatalogTuple(n, uid, material, size) ==
    <<uid, <<"u">>, <<"p">>, material, 20, <<"g">>, size>> \o Numbers(n)

\* finished models of user u, project p: model A is made of two materials
\* (one tuple per material), model B of one; the last tuple carries a
\* malformed unique id
CatalogTuples ==
    {CatalogTuple(1, UidA, <<"f", "e">>, 100),
     CatalogTuple(2, UidA, <<"n", "i">>, 100),
     CatalogTuple(3, UidB, <<"f", "e">>, 80),
     CatalogTuple(4, UidShort, <<"f", "e">>, 80)}

IsInjective(s) == \A a, b \in DOMAIN s : a # b => s[a] # s[b]

\* a result set: tuples of distinct (model, material) pairs, in any order
ResultSets ==
    {s \in UNION {[1..n -> CatalogTuples] : n \in 0..MaxRecords} : IsInjective(s)}

\* the archive of a model in the sharded source tree
ArchivePath(pairs) ==
    source_dir \o <<"/">> \o Nested(pairs) \o <<"/", "d", "a", "t", "a", ".", "z", "i", "p">>

Archives ==
    {[uid |-> UidA, path |-> ArchivePath(PairsA), content |-> "archive of A"],
     [uid |-> UidB, path |-> ArchivePath(PairsB), content |-> "archive of B"]}

SourceTrees ==
    {[p \in {a.path : a \in held} |-> (CHOOSE a \in held : a.path = p).content] :
        held \in SUBSET Archives}

CliIdle ==
    /\ command = "none" /\ pc = "idle" /\ catalog = <<>> /\ conn = NoConn
    /\ rows = <<>> /\ idx = 0 /\ exc = "" /\ src_files = NoFiles /\ dirs = {}
    /\ files = NoFiles /\ df_dict = <<>> /\ csv = <<>> /\ run = 1 /\ first_run = NoRun

\* the command starts on an empty destination
CliInit ==
    /\ pc = "connect"
    /\ catalog \in ResultSets
    /\ conn = NoConn
    /\ rows = <<>>
    /\ idx = 0
    /\ exc = ""
    /\ dirs = {}
    /\ files = NoFiles
    /\ df_dict = <<>>
    /\ csv = <<>>
    /\ run = 1
    /\ first_run = NoRun
    /\ \/ command = "retrieve_models" /\ src_files \in SourceTrees
       \/ command = "model_stats" /\ src_files = NoFiles

Init == CliInit /\ CodecIdle

Spec == Init /\ [][CliNext]_vars

CodecStart == CodecInit /\ CliIdle

CodecSpec == CodecStart /\ [][CodecNext]_vars

----------------------------------------------------------------------------
(* The commands' contract, stated on the catalog's tuples and the trees *)

\* the decimal text of the sizes and temperatures the catalog holds
DecimalText(n) ==
    CASE n = 20 -> <<"2", "0">>
      [] n = 80 -> <<"8", "0">>
      [] n = 100 -> <<"1", "0", "0">>

\* destination_dir/<user>/<project>/<material>/<geometry>/<size>/<temperature>
ExpectedDirParts(c) ==
    <<destination_dir, c[2], c[3], c[4], c[6], DecimalText(c[7]), DecimalText(c[5])>>

ExpectedDir(c) == Nested(ExpectedDirParts(c))

\* .../<unique_id>.zip
ExpectedZip(c) == ExpectedDir(c) \o <<"/">> \o c[1] \o <<".", "z", "i", "p">>

\* the record's archive is in the source tree
HasArchive(c) == \E a \in Archives : a.uid = c[1] /\ a.path \in DOMAIN src_files

ArchiveContent(c) == src_files[(CHOOSE a \in Archives : a.uid = c[1]).path]

RetrieveEnded == command = "retrieve_models" /\ pc = "exited"

\* the connection was made and the query answered
CatalogAnswered == exc \notin {"OperationalError", "DatabaseError"}

Records == 1..Len(catalog)

Missing == {k \in Records : ~HasArchive(catalog[k])}

FirstMissing == CHOOSE k \in Missing : \A m \in Missing : k <= m

\* C6: when record k is the first whose archive is absent, retrieve_models
\* ends with an error at record k; the files of records 1..k-1 are there as
\* copied, and no file exists for record k or any later record.
C6_AbortsAtFirstMissing ==
    (RetrieveEnded /\ CatalogAnswered /\ Missing # {})
        => /\ exc # ""
           /\ idx = FirstMissing - 1
           /\ \A j \in Records :
                IF j < FirstMissing
                THEN /\ ExpectedZip(catalog[j]) \in DOMAIN files
                     /\ files[ExpectedZip(catalog[j])] = ArchiveContent(catalog[j])
                ELSE ExpectedZip(catalog[j]) \notin DOMAIN files

C6_Witness ==
    /\ RetrieveEnded /\ run = 1 /\ exc = "FileNotFoundError"
    /\ Len(catalog) = 3
    /\ FirstMissing = 2
    /\ HasArchive(catalog[3])
    /\ DOMAIN files = {ExpectedZip(catalog[1])}

\* C7: every invocation acquires the connection once, and whichever way the
\* command ends the connection has been closed by then.
C7_ConnectionClosedOnExit ==
    pc = "exited"
        => /\ conn.acquired <= 1
           /\ conn.acquired = 1 => conn.state = "closed"

\* C8: after a first run that succeeded, a run with the same arguments,
\* result set and source tree does not fail on the directories and files
\* that already exist, and the destination tree stays what the first run
\* left.
C8_SecondRunChangesNothing ==
    (command = "retrieve_models" /\ run >= 2 /\ first_run.ended /\ first_run.exc = "")
        => /\ CatalogAnswered => exc = ""
           /\ dirs = first_run.dirs
           /\ files = first_run.files

C8_Witness ==
    /\ RetrieveEnded /\ run = 2 /\ exc = ""
    /\ first_run.ended /\ first_run.exc = ""
    /\ Len(catalog) = 3
    /\ Cardinality(DOMAIN files) = 3
    /\ files = first_run.files

\* the 25 columns as the specification declares them
DeclaredColumns ==
    <<"unique_id", "db_user", "project_name", "material", "temperature",
    "geometry", "size", "mx_tot", "my_tot", "mz_tot", "vx_tot", "vy_tot",
    "vz_tot", "h_tot", "adm_tot", "e_typical", "e_anis", "e_ext",
    "e_demag", "e_exch1", "e_exch2", "e_exch3", "e_exch4", "e_tot",
    "volume">>

StatsHasRows ==
    /\ command = "model_stats"
    /\ \/ pc \in {"append", "to_csv"}
       \/ pc \in {"leave_with", "exited"} /\ CatalogAnswered

\* C9: model_stats keeps 25 columns of equal length, the number of records
\* taken so far, column j of row k holding field j of record k; the file it
\* writes is a header of the 25 names in declared order (after the index
\* column) and one line per record, in result order.
C9_OneRowPerRecord ==
    StatsHasRows
        => /\ DOMAIN df_dict = {DeclaredColumns[j] : j \in 1..25}
           /\ \A j \in 1..25 :
                /\ Len(df_dict[DeclaredColumns[j]]) = idx
                /\ \A k \in 1..idx : df_dict[DeclaredColumns[j]][k] = catalog[k][j]
           /\ pc # "append" => idx = Len(catalog)
           /\ (pc \in {"leave_with", "exited"} /\ exc = "")
                => /\ Len(csv) = Len(catalog) + 1
                   /\ csv[1] = <<"">> \o DeclaredColumns
                   /\ \A k \in Records : csv[k + 1] = <<k - 1>> \o catalog[k]

C9_Witness ==
    /\ command = "model_stats" /\ pc = "exited" /\ exc = "" /\ run = 1
    /\ Len(catalog) = 3
    /\ Len(csv) = 4
    /\ csv[4][2] = UidB

\* C10: when retrieve_models ends because record k's archive is missing, the
\* record's destination directory and all its ancestors exist and hold no
\* file for the record; if nothing was there before, the failed record alone
\* has changed the destination tree.
C10_DirectoryMadeBeforeFailedCopy ==
    (RetrieveEnded /\ exc = "FileNotFoundError")
        => LET c == catalog[idx + 1]
               parts == ExpectedDirParts(c)
           IN  /\ ~HasArchive(c)
               /\ \A m \in 1..Len(parts) : Nested(SubSeq(parts, 1, m)) \in dirs
               /\ ExpectedZip(c) \notin DOMAIN files
               /\ idx = 0 => /\ files = NoFiles
                             /\ dirs = {Nested(SubSeq(parts, 1, m)) : m \in 1..Len(parts)}

C10_Witness ==
    /\ RetrieveEnded /\ run = 1 /\ exc = "FileNotFoundError"
    /\ idx = 0
    /\ files = NoFiles
    /\ ExpectedDir(catalog[1]) \in dirs

============================================================================
